---- MODULE Spec2Model ----
(***************************************************************************)
(* Model of the POST /api/merge-videos handler of video-merge-api.         *)
(*                                                                         *)
(* The repository holds five revisions of the handler:                     *)
(*   "fused"    src/server.js 24-156        one concat stage for v and a   *)
(*   "silence"  src/server.js 192-302       anullsrc for a missing track   *)
(*   "separate" src/unnamed/part_000 24-158 video concat + audio stages    *)
(*   "reject"   src/unnamed/part_000 194-332 asymmetric cases get a 400    *)
(*   "demuxer"  src/unnamed/part_001 13-50  concat demuxer, no probes      *)
(* The variable rev says which revision the running server is.  Requests   *)
(* share the temporary directory (fs) and the wall clock (clock).          *)
(*                                                                         *)
(* Spec serves NumReqs requests; SpecConcurrent serves NumConcurrent       *)
(* requests, whose handlers interleave at every await and callback.        *)
(***************************************************************************)
EXTENDS Integers, Sequences, FiniteSets, TLC

\* ------------------------------------------------------------------ bounds
\* requests served under Spec, and under SpecConcurrent
NumReqs == 1
NumConcurrent == 2
\* the last reading of Date.now()
MaxClock == 1

Reqs == 1..(IF NumReqs > NumConcurrent THEN NumReqs ELSE NumConcurrent)
Revs == {"fused", "silence", "separate", "reject", "demuxer"}
GraphRevs == {"fused", "silence", "separate", "reject"}

VARIABLES rev, clock, fs, pc, files, outputPath, fileListPath, probe,
          allFilters, outputOptions, response, engineMsg, errKind,
          unlinks, nProbes, nTranscodes

vars == <<rev, clock, fs, pc, files, outputPath, fileListPath, probe,
          allFilters, outputOptions, response, engineMsg, errKind,
          unlinks, nProbes, nTranscodes>>

\* ------------------------------------------------------------ file names
\* multer stores each upload under a random name of its own
IntroPath(r) == <<"intro", r>>
MainPath(r) == <<"main", r>>
\* path.join(TMP, `merged_${Date.now()}.mp4`)
MergedPath(t) == <<"merged", t>>
\* path.join('uploads', `filelist_${Date.now()}.txt`)
FileListName(t) == <<"filelist", t>>
NoPath == <<"none", 0>>

\* ----------------------------------------------------------- filter graph
\* One filter of the complexFilter list: the pads it consumes, the filter
\* chain, concat's n/v/a parameters (0 for another filter), the pads it makes.
Stage(ins, filter, n, v, a, outs) ==
  [ins |-> ins, filter |-> filter, n |-> n, v |-> v, a |-> a, outs |-> outs]

VNORM_SCALE == "fps=30,format=yuv420p,scale=w=1920:h=1080,setpts=PTS-STARTPTS"
VNORM == "fps=30,format=yuv420p,setpts=PTS-STARTPTS"
ARESAMPLE == "aresample=48000,asetpts=PTS-STARTPTS"
ANULLSRC == "anullsrc=cl=stereo:r=48000,atrim=0:1"
CONCAT == "concat"

\* videoFilters of the fused, separate and reject revisions
videoFilters ==
  << Stage(<<"[0:v]">>, VNORM_SCALE, 0, 0, 0, <<"[v0]">>),
     Stage(<<"[1:v]">>, VNORM_SCALE, 0, 0, 0, <<"[v1]">>) >>

\* videoFilters of the silence revision (no scale)
videoFiltersSilence ==
  << Stage(<<"[0:v]">>, VNORM, 0, 0, 0, <<"[v0]">>),
     Stage(<<"[1:v]">>, VNORM, 0, 0, 0, <<"[v1]">>) >>

Resample(in, out) == Stage(<<in>>, ARESAMPLE, 0, 0, 0, <<out>>)
Silence(out) == Stage(<<>>, ANULLSRC, 0, 0, 0, <<out>>)
Concat(ins, v, a, outs) == Stage(ins, CONCAT, 2, v, a, outs)

\* '[v0][v1]concat=n=2:v=1:a=0[v]'
VideoConcat == Concat(<<"[v0]", "[v1]">>, 1, 0, <<"[v]">>)

\* outputOptions: -map directives first, then the encoding profile
MapOpt(label) == <<"-map", label>>
VideoProfile == << <<"-c:v", "libx264">>, <<"-preset", "veryfast">>, <<"-crf", "20">> >>
AudioProfile == << <<"-c:a", "aac">>, <<"-b:a", "192k">> >>
FastStart == << <<"-movflags", "+faststart">> >>
OptionsWithAudio(label) ==
  <<MapOpt("[v]"), MapOpt(label)>> \o VideoProfile \o AudioProfile \o FastStart
OptionsVideoOnly == <<MapOpt("[v]")>> \o VideoProfile \o FastStart

NoLabel == "null"

\* ---- fused revision
FusedAudioFilters(introHasA, mainHasA) ==
  IF introHasA /\ mainHasA
    THEN <<Resample("[0:a]", "[a0]"), Resample("[1:a]", "[a1]")>>
  ELSE IF introHasA /\ ~mainHasA
    THEN <<Resample("[0:a]", "[a0]")>>
  ELSE IF ~introHasA /\ mainHasA
    THEN <<Resample("[1:a]", "[a1]")>>
  ELSE <<>>

FusedConcatFilter(introHasA, mainHasA) ==
  IF introHasA /\ mainHasA
    THEN Concat(<<"[v0]", "[a0]", "[v1]", "[a1]">>, 1, 1, <<"[v]", "[a]">>)
  ELSE IF introHasA /\ ~mainHasA
    THEN Concat(<<"[v0]", "[a0]", "[v1]", "[a0]">>, 1, 1, <<"[v]", "[a]">>)
  ELSE IF ~introHasA /\ mainHasA
    THEN VideoConcat
  ELSE VideoConcat

\* mutant: the audio output is declared only when both inputs have audio
FusedHasAudioOutputBothOnly(introHasA, mainHasA) == introHasA /\ mainHasA

FusedHasAudioOutput(introHasA, mainHasA) ==
  IF introHasA /\ mainHasA THEN TRUE
  ELSE IF introHasA /\ ~mainHasA THEN TRUE
  ELSE IF ~introHasA /\ mainHasA THEN TRUE
  ELSE FALSE

\* mutant: the concat filter is listed before the audio filters it consumes
FusedAllFiltersConcatEarly(introHasA, mainHasA) ==
  videoFilters \o <<FusedConcatFilter(introHasA, mainHasA)>>
               \o FusedAudioFilters(introHasA, mainHasA)

FusedAllFilters(introHasA, mainHasA) ==
  videoFilters \o FusedAudioFilters(introHasA, mainHasA)
               \o <<FusedConcatFilter(introHasA, mainHasA)>>

FusedOutputOptions(introHasA, mainHasA) ==
  IF FusedHasAudioOutput(introHasA, mainHasA)
    THEN OptionsWithAudio("[a]")
    ELSE OptionsVideoOnly

\* ---- silence revision
SilenceAudioFilters(introHasA, mainHasA) ==
  << IF introHasA THEN Resample("[0:a]", "[a0]") ELSE Silence("[a0]"),
     IF mainHasA THEN Resample("[1:a]", "[a1]") ELSE Silence("[a1]") >>

SilenceAllFilters(introHasA, mainHasA) ==
  videoFiltersSilence \o SilenceAudioFilters(introHasA, mainHasA)
    \o <<Concat(<<"[v0]", "[a0]", "[v1]", "[a1]">>, 1, 1, <<"[v]", "[a]">>)>>

SilenceOutputOptions == OptionsWithAudio("[a]")

\* ---- separate revision
SeparateAudioFilters(introHasA, mainHasA) ==
  IF introHasA /\ mainHasA
    THEN << Resample("[0:a]", "[a_intro]"), Resample("[1:a]", "[a_main]"),
            Concat(<<"[a_intro]", "[a_main]">>, 0, 1, <<"[a]">>) >>
  ELSE IF introHasA /\ ~mainHasA
    THEN <<Resample("[0:a]", "[a_intro]")>>
  ELSE IF ~introHasA /\ mainHasA
    THEN <<Resample("[1:a]", "[a_main]")>>
  ELSE <<>>

SeparateAudioOutputLabel(introHasA, mainHasA) ==
  IF introHasA /\ mainHasA THEN "[a]"
  ELSE IF introHasA /\ ~mainHasA THEN "[a_intro]"
  ELSE IF ~introHasA /\ mainHasA THEN "[a_main]"
  ELSE NoLabel

SeparateAllFilters(introHasA, mainHasA) ==
  (videoFilters \o <<VideoConcat>>) \o SeparateAudioFilters(introHasA, mainHasA)

SeparateOutputOptions(introHasA, mainHasA) ==
  IF SeparateAudioOutputLabel(introHasA, mainHasA) # NoLabel
    THEN OptionsWithAudio(SeparateAudioOutputLabel(introHasA, mainHasA))
    ELSE OptionsVideoOnly

\* ---- reject revision
RejectUnsupported(introHasA, mainHasA) ==
  (introHasA /\ ~mainHasA) \/ (~introHasA /\ ~mainHasA)

RejectMessage(introHasA, mainHasA) ==
  IF introHasA /\ ~mainHasA
    THEN "Unsupported combination: intro has audio but main does not."
    ELSE "Unsupported combination: neither input has audio."

RejectAudioFilters(introHasA, mainHasA) ==
  IF introHasA /\ mainHasA
    THEN << Resample("[0:a]", "[a0]"), Resample("[1:a]", "[a1]"),
            Concat(<<"[a0]", "[a1]">>, 0, 1, <<"[a]">>) >>
    ELSE <<Resample("[1:a]", "[a_main]")>>

RejectAudioOutputLabel(introHasA, mainHasA) ==
  IF introHasA /\ mainHasA THEN "[a]" ELSE "[a_main]"

RejectAllFilters(introHasA, mainHasA) ==
  (videoFilters \o <<VideoConcat>>) \o RejectAudioFilters(introHasA, mainHasA)

RejectOutputOptions(introHasA, mainHasA) ==
  IF RejectAudioOutputLabel(introHasA, mainHasA) # NoLabel
    THEN OptionsWithAudio(RejectAudioOutputLabel(introHasA, mainHasA))
    ELSE OptionsVideoOnly

\* ---- the plan of the running revision
PlanFilters(v, introHasA, mainHasA) ==
  CASE v = "fused" -> FusedAllFilters(introHasA, mainHasA)
    [] v = "silence" -> SilenceAllFilters(introHasA, mainHasA)
    [] v = "separate" -> SeparateAllFilters(introHasA, mainHasA)
    [] v = "reject" -> RejectAllFilters(introHasA, mainHasA)

PlanOptions(v, introHasA, mainHasA) ==
  CASE v = "fused" -> FusedOutputOptions(introHasA, mainHasA)
    [] v = "silence" -> SilenceOutputOptions
    [] v = "separate" -> SeparateOutputOptions(introHasA, mainHasA)
    [] v = "reject" -> RejectOutputOptions(introHasA, mainHasA)

\* ------------------------------------------------------------- collaborators
\* What ffprobe reports: the codec_type of each stream of the file
ProbeInfos == { {"video"}, {"video", "audio"} }
ProbeErrMsg == "ffprobe exited with code 1"
\* The diagnostic message of a failed ffmpeg run
EngineMsgs == {"ffmpeg exited with code 1", "Conversion failed!"}
MissingMsg == "Missing files. Send form fields \"intro\" and \"main\"."
TypeErrMsg == "Cannot read properties of undefined (reading '0')"

NotStarted == [st |-> "none", streams |-> {}]
Pending == [st |-> "pending", streams |-> {}]

\* (info?.streams || []).some(s => s.codec_type === 'audio')
HasAudio(p) == "audio" \in p.streams

\* Promise.all([probeIntro, probeMain]): rejected as soon as one is rejected,
\* fulfilled once both are fulfilled
\* mutant: Promise.allSettled, fulfilled once both have settled either way
PromiseAllSettled(a, b) ==
  IF a.st \in {"resolved", "rejected"} /\ b.st \in {"resolved", "rejected"}
    THEN "fulfilled" ELSE "pending"

PromiseAll(a, b) ==
  IF a.st = "rejected" \/ b.st = "rejected" THEN "rejected"
  ELSE IF a.st = "resolved" /\ b.st = "resolved" THEN "fulfilled"
  ELSE "pending"

\* res.status(s).json({ error: msg }), res.status(s).send(text), res.sendFile
JsonResponse(status, msg) == [status |-> status, kind |-> "json", error |-> msg]
TextResponse(status, msg) == [status |-> status, kind |-> "text", error |-> msg]
FileResponse == [status |-> 200, kind |-> "file", error |-> ""]

\* catch (error): the response of the catch block
\* mutant: the catch block answers in plain text in every revision
CatchResponseText(v, msg) == TextResponse(500, "Error: " \o msg)

CatchResponse(v, msg) ==
  IF v = "demuxer" THEN TextResponse(500, "Error: " \o msg)
                   ELSE JsonResponse(500, msg)

\* fs.unlinkSync on paths[i], paths[i+1], ... inside one try block: the first
\* removal that throws (the file is not there, or the failAt-th removal fails
\* in the file system) ends the block.
RECURSIVE UnlinkFrom(_, _, _, _)
UnlinkFrom(paths, i, dir, failAt) ==
  IF i > Len(paths) THEN [fs |-> dir, log |-> <<>>]
  ELSE IF paths[i] \notin dir \/ i = failAt
    THEN [fs |-> dir, log |-> << <<paths[i], FALSE>> >>]
  ELSE LET rest == UnlinkFrom(paths, i + 1, dir \ {paths[i]}, failAt)
       IN [fs |-> rest.fs, log |-> << <<paths[i], TRUE>> >> \o rest.log]

\* The files the cleanup removes, in the order of the unlinkSync calls
CleanupPaths(v, r) ==
  IF v = "demuxer"
    THEN <<IntroPath(r), MainPath(r), fileListPath[r], outputPath[r]>>
    ELSE <<IntroPath(r), MainPath(r), outputPath[r]>>

\* ------------------------------------------------------------------- state
Init ==
  /\ rev \in Revs
  /\ clock = 0
  /\ fs = {}
  /\ pc = [r \in Reqs |-> "Idle"]
  /\ files = [r \in Reqs |-> [intro |-> FALSE, main |-> FALSE]]
  /\ outputPath = [r \in Reqs |-> NoPath]
  /\ fileListPath = [r \in Reqs |-> NoPath]
  /\ probe = [r \in Reqs |-> [intro |-> NotStarted, main |-> NotStarted]]
  /\ allFilters = [r \in Reqs |-> <<>>]
  /\ outputOptions = [r \in Reqs |-> <<>>]
  /\ response = [r \in Reqs |-> <<>>]
  /\ engineMsg = [r \in Reqs |-> ""]
  /\ errKind = [r \in Reqs |-> "none"]
  /\ unlinks = [r \in Reqs |-> <<>>]
  /\ nProbes = [r \in Reqs |-> 0]
  /\ nTranscodes = [r \in Reqs |-> 0]

\* Date.now() advances
Tick ==
  /\ clock < MaxClock
  /\ clock' = clock + 1
  /\ UNCHANGED <<rev, fs, pc, files, outputPath, fileListPath, probe,
                 allFilters, outputOptions, response, engineMsg, errKind,
                 unlinks, nProbes, nTranscodes>>

\* upload.fields([...]): multer stores the uploads that the form carries
Upload(r, hasIntro, hasMain) ==
  /\ pc[r] = "Idle"
  /\ pc' = [pc EXCEPT ![r] = "Received"]
  /\ files' = [files EXCEPT ![r] = [intro |-> hasIntro, main |-> hasMain]]
  /\ fs' = fs \cup (IF hasIntro THEN {IntroPath(r)} ELSE {})
              \cup (IF hasMain THEN {MainPath(r)} ELSE {})
  /\ UNCHANGED <<rev, clock, outputPath, fileListPath, probe, allFilters,
                 outputOptions, response, engineMsg, errKind, unlinks,
                 nProbes, nTranscodes>>

\* if (!req.files || !req.files.intro || !req.files.main)
MissingFiles(r) == ~files[r].intro \/ ~files[r].main

\* The handler of the four filter-graph revisions, up to its first await
HandlerStart(r) ==
  /\ rev \in GraphRevs
  /\ pc[r] = "Received"
  /\ IF MissingFiles(r)
       THEN /\ response' = [response EXCEPT ![r] = Append(@, JsonResponse(400, MissingMsg))]
            /\ pc' = [pc EXCEPT ![r] = "Failed"]
            /\ errKind' = [errKind EXCEPT ![r] = "missing"]
            /\ UNCHANGED <<outputPath, probe, nProbes>>
       ELSE /\ outputPath' = [outputPath EXCEPT ![r] = MergedPath(clock)]
            /\ probe' = [probe EXCEPT ![r] = [intro |-> Pending, main |-> Pending]]
            /\ nProbes' = [nProbes EXCEPT ![r] = @ + 2]
            /\ pc' = [pc EXCEPT ![r] = "Probing"]
            /\ UNCHANGED <<response, errKind>>
  /\ UNCHANGED <<rev, clock, fs, files, fileListPath, allFilters,
                 outputOptions, engineMsg, unlinks, nTranscodes>>

\* The handler of the demuxer revision, up to its await: no missing-files
\* check, req.files.intro[0] throws on a missing field; Date.now() is read
\* twice, the second reading d ticks after the first.
HandlerStartDemuxer(r, d) ==
  /\ rev = "demuxer"
  /\ pc[r] = "Received"
  /\ IF MissingFiles(r)
       THEN /\ d = 0
            /\ response' = [response EXCEPT ![r] = Append(@, CatchResponse(rev, TypeErrMsg))]
            /\ pc' = [pc EXCEPT ![r] = "Failed"]
            /\ errKind' = [errKind EXCEPT ![r] = "missing"]
            /\ UNCHANGED <<clock, fs, outputPath, fileListPath, nTranscodes>>
       ELSE /\ clock + d <= MaxClock
            /\ clock' = clock + d
            /\ outputPath' = [outputPath EXCEPT ![r] = MergedPath(clock)]
            /\ fileListPath' = [fileListPath EXCEPT ![r] = FileListName(clock + d)]
            /\ fs' = fs \cup {FileListName(clock + d)}
            /\ nTranscodes' = [nTranscodes EXCEPT ![r] = @ + 1]
            /\ pc' = [pc EXCEPT ![r] = "Transcoding"]
            /\ UNCHANGED <<response, errKind>>
  /\ UNCHANGED <<rev, files, probe, allFilters, outputOptions, engineMsg,
                 unlinks, nProbes>>

\* The handler after `await Promise.all(...)` has returned both infos: the
\* unsupported-combination check of the reject revision, the filter graph,
\* and the start of ffmpeg (.save(outputPath)).
AfterProbes(r, p) ==
  LET introHasA == HasAudio(p.intro)
      mainHasA == HasAudio(p.main)
  IN IF rev = "reject" /\ RejectUnsupported(introHasA, mainHasA)
       THEN /\ response' = [response EXCEPT ![r] =
                 Append(@, JsonResponse(400, RejectMessage(introHasA, mainHasA)))]
            /\ pc' = [pc EXCEPT ![r] = "Failed"]
            /\ errKind' = [errKind EXCEPT ![r] = "unsupported"]
            /\ UNCHANGED <<allFilters, outputOptions, nTranscodes>>
       ELSE /\ allFilters' = [allFilters EXCEPT ![r] = PlanFilters(rev, introHasA, mainHasA)]
            /\ outputOptions' = [outputOptions EXCEPT ![r] = PlanOptions(rev, introHasA, mainHasA)]
            /\ nTranscodes' = [nTranscodes EXCEPT ![r] = @ + 1]
            /\ pc' = [pc EXCEPT ![r] = "Transcoding"]
            /\ UNCHANGED <<response, errKind>>

\* catch (error) { res.status(500)... }: nothing is removed
Catch(r, msg, kind) ==
  /\ response' = [response EXCEPT ![r] = Append(@, CatchResponse(rev, msg))]
  /\ pc' = [pc EXCEPT ![r] = "Failed"]
  /\ errKind' = [errKind EXCEPT ![r] = kind]

\* The callback of one ffprobe call: it settles its promise; when that settles
\* Promise.all while the handler awaits it, the handler resumes in the same
\* turn of the event loop.
ProbeCallback(r, which, err, info) ==
  /\ probe[r][which].st = "pending"
  /\ LET settled == IF err THEN [st |-> "rejected", streams |-> {}]
                           ELSE [st |-> "resolved", streams |-> info]
         p == [probe[r] EXCEPT ![which] = settled]
         all == PromiseAll(p.intro, p.main)
     IN /\ probe' = [probe EXCEPT ![r] = p]
        /\ IF pc[r] = "Probing" /\ all = "fulfilled"
             THEN AfterProbes(r, p)
           ELSE IF pc[r] = "Probing" /\ all = "rejected"
             THEN /\ Catch(r, ProbeErrMsg, "probe")
                  /\ UNCHANGED <<allFilters, outputOptions, nTranscodes>>
           ELSE UNCHANGED <<response, pc, errKind, allFilters, outputOptions,
                            nTranscodes>>
  /\ UNCHANGED <<rev, clock, fs, files, outputPath, fileListPath, engineMsg,
                 unlinks, nProbes>>

\* ffmpeg emits 'end': the output file is written, the handler resumes and
\* starts res.sendFile
EngineEnd(r) ==
  /\ pc[r] = "Transcoding"
  /\ fs' = fs \cup {outputPath[r]}
  /\ response' = [response EXCEPT ![r] = Append(@, FileResponse)]
  /\ pc' = [pc EXCEPT ![r] = "Delivering"]
  /\ UNCHANGED <<rev, clock, files, outputPath, fileListPath, probe,
                 allFilters, outputOptions, engineMsg, errKind, unlinks,
                 nProbes, nTranscodes>>

\* mutant: the first 'error' of ffmpeg is answered by running ffmpeg again
EngineErrorRetries(r, msg, partial) ==
  /\ pc[r] = "Transcoding"
  /\ fs' = IF partial THEN fs \cup {outputPath[r]} ELSE fs
  /\ engineMsg' = [engineMsg EXCEPT ![r] = msg]
  /\ IF nTranscodes[r] < 2
       THEN /\ nTranscodes' = [nTranscodes EXCEPT ![r] = @ + 1]
            /\ UNCHANGED <<response, pc, errKind>>
       ELSE /\ Catch(r, msg, "transcode")
            /\ UNCHANGED nTranscodes
  /\ UNCHANGED <<rev, clock, files, outputPath, fileListPath, probe,
                 allFilters, outputOptions, unlinks, nProbes>>

\* mutant: the 'error' handler does not reject, the awaited promise never
\* settles
EngineErrorNeverSettles(r, msg, partial) ==
  /\ pc[r] = "Transcoding"
  /\ fs' = IF partial THEN fs \cup {outputPath[r]} ELSE fs
  /\ engineMsg' = [engineMsg EXCEPT ![r] = msg]
  /\ pc' = [pc EXCEPT ![r] = "Awaiting"]
  /\ UNCHANGED <<rev, clock, files, outputPath, fileListPath, probe,
                 allFilters, outputOptions, response, errKind, unlinks,
                 nProbes, nTranscodes>>

\* ffmpeg emits 'error' (having written part of the output file or not): the
\* awaited promise rejects and the catch block answers
EngineError(r, msg, partial) ==
  /\ pc[r] = "Transcoding"
  /\ fs' = IF partial THEN fs \cup {outputPath[r]} ELSE fs
  /\ engineMsg' = [engineMsg EXCEPT ![r] = msg]
  /\ Catch(r, msg, "transcode")
  /\ UNCHANGED <<rev, clock, files, outputPath, fileListPath, probe,
                 allFilters, outputOptions, unlinks, nProbes, nTranscodes>>

\* The try block of the cleanup
RunCleanup(r, failAt) ==
  LET done == UnlinkFrom(CleanupPaths(rev, r), 1, fs, failAt)
  IN /\ fs' = done.fs
     /\ unlinks' = [unlinks EXCEPT ![r] = @ \o done.log]

\* mutant: a delivery error is answered with a 500 response on top of the
\* file response already started
DeliveryCallbackErrorAnswers500(r, err, failAt) ==
  /\ pc[r] = "Delivering"
  /\ ~err => outputPath[r] \in fs
  /\ errKind' = [errKind EXCEPT ![r] = IF err THEN "delivery" ELSE "none"]
  /\ response' = [response EXCEPT ![r] =
                    IF err THEN Append(@, JsonResponse(500, "delivery failed")) ELSE @]
  /\ IF rev = "demuxer"
       THEN /\ failAt \in 0..Len(CleanupPaths(rev, r))
            /\ RunCleanup(r, failAt)
            /\ pc' = [pc EXCEPT ![r] = IF err THEN "Failed" ELSE "Completed"]
       ELSE /\ failAt = 0
            /\ pc' = [pc EXCEPT ![r] = "Cleanup"]
            /\ UNCHANGED <<fs, unlinks>>
  /\ UNCHANGED <<rev, clock, files, outputPath, fileListPath, probe,
                 allFilters, outputOptions, engineMsg, nProbes, nTranscodes>>

\* mutant: a delivery error ends the request without queueing the cleanup
DeliveryCallbackErrorSkipsCleanup(r, err, failAt) ==
  /\ pc[r] = "Delivering"
  /\ ~err => outputPath[r] \in fs
  /\ errKind' = [errKind EXCEPT ![r] = IF err THEN "delivery" ELSE "none"]
  /\ IF rev = "demuxer"
       THEN /\ failAt \in 0..Len(CleanupPaths(rev, r))
            /\ RunCleanup(r, failAt)
            /\ pc' = [pc EXCEPT ![r] = IF err THEN "Failed" ELSE "Completed"]
       ELSE /\ failAt = 0
            /\ pc' = [pc EXCEPT ![r] = IF err THEN "Failed" ELSE "Cleanup"]
            /\ UNCHANGED <<fs, unlinks>>
  /\ UNCHANGED <<rev, clock, files, outputPath, fileListPath, probe,
                 allFilters, outputOptions, response, engineMsg, nProbes,
                 nTranscodes>>

\* The callback of res.sendFile: delivery has ended, with err or without.
\* The graph revisions queue the cleanup with setImmediate; the demuxer
\* revision cleans up in the callback itself.
DeliveryCallback(r, err, failAt) ==
  /\ pc[r] = "Delivering"
  /\ ~err => outputPath[r] \in fs
  /\ errKind' = [errKind EXCEPT ![r] = IF err THEN "delivery" ELSE "none"]
  /\ IF rev = "demuxer"
       THEN /\ failAt \in 0..Len(CleanupPaths(rev, r))
            /\ RunCleanup(r, failAt)
            /\ pc' = [pc EXCEPT ![r] = IF err THEN "Failed" ELSE "Completed"]
       ELSE /\ failAt = 0
            /\ pc' = [pc EXCEPT ![r] = "Cleanup"]
            /\ UNCHANGED <<fs, unlinks>>
  /\ UNCHANGED <<rev, clock, files, outputPath, fileListPath, probe,
                 allFilters, outputOptions, response, engineMsg, nProbes,
                 nTranscodes>>

\* mutant: no try/catch around the removals, a failed unlinkSync escapes the
\* setImmediate callback
CleanupImmediateUncaught(r, failAt) ==
  /\ pc[r] = "Cleanup"
  /\ failAt \in 0..Len(CleanupPaths(rev, r))
  /\ RunCleanup(r, failAt)
  /\ LET done == UnlinkFrom(CleanupPaths(rev, r), 1, fs, failAt)
     IN pc' = [pc EXCEPT ![r] =
                 IF \E i \in DOMAIN done.log : ~done.log[i][2] THEN "Uncaught"
                 ELSE IF errKind[r] = "delivery" THEN "Failed" ELSE "Completed"]
  /\ UNCHANGED <<rev, clock, files, outputPath, fileListPath, probe,
                 allFilters, outputOptions, response, engineMsg, errKind,
                 nProbes, nTranscodes>>

\* The setImmediate callback of the graph revisions
CleanupImmediate(r, failAt) ==
  /\ pc[r] = "Cleanup"
  /\ failAt \in 0..Len(CleanupPaths(rev, r))
  /\ RunCleanup(r, failAt)
  /\ pc' = [pc EXCEPT ![r] = IF errKind[r] = "delivery" THEN "Failed" ELSE "Completed"]
  /\ UNCHANGED <<rev, clock, files, outputPath, fileListPath, probe,
                 allFilters, outputOptions, response, engineMsg, errKind,
                 nProbes, nTranscodes>>

\* The handlers and callbacks of the requests the server has received
Callbacks ==
  \/ \E r \in Reqs : HandlerStart(r)
  \/ \E r \in Reqs, d \in 0..1 : HandlerStartDemuxer(r, d)
  \/ \E r \in Reqs, which \in {"intro", "main"}, err \in BOOLEAN, info \in ProbeInfos :
        ProbeCallback(r, which, err, info)
  \/ \E r \in Reqs : EngineEnd(r)
  \/ \E r \in Reqs, msg \in EngineMsgs, partial \in BOOLEAN : EngineError(r, msg, partial)
  \/ \E r \in Reqs, err \in BOOLEAN, failAt \in 0..4 : DeliveryCallback(r, err, failAt)
  \/ \E r \in Reqs, failAt \in 0..3 : CleanupImmediate(r, failAt)

\* Everything the server does with the requests it has received
Serve ==
  \/ Tick
  \/ Callbacks

Next ==
  \/ \E r \in 1..NumReqs, hasIntro \in BOOLEAN, hasMain \in BOOLEAN : Upload(r, hasIntro, hasMain)
  \/ Serve

NextConcurrent ==
  \/ \E r \in 1..NumConcurrent, hasIntro \in BOOLEAN, hasMain \in BOOLEAN : Upload(r, hasIntro, hasMain)
  \/ Serve

Spec == Init /\ [][Next]_vars
SpecConcurrent == Init /\ [][NextConcurrent]_vars

\* The event loop runs a handler or callback that is due (the handler of a
\* received request, the callback of a pending ffprobe, the 'end' or 'error'
\* event of a running ffmpeg, the sendFile callback, the setImmediate
\* cleanup) as long as there is one.
Fairness == WF_vars(Callbacks)

SpecFair == Spec /\ Fairness

\* ================================================================== claims
IntroHasA(r) == HasAudio(probe[r].intro)
MainHasA(r) == HasAudio(probe[r].main)

\* The request has built its filter graph and handed it to ffmpeg
Planned(r) == rev \in GraphRevs /\ nTranscodes[r] > 0

RawPads == {"[0:v]", "[1:v]", "[0:a]", "[1:a]"}
MapLabels(opts) == {opts[i][2] : i \in {j \in DOMAIN opts : opts[j][1] = "-map"}}
AudioMapLabels(opts) == MapLabels(opts) \ {"[v]"}
PadsOf(seq) == {seq[i] : i \in DOMAIN seq}
ProducedBefore(fl, i) == UNION {PadsOf(fl[k].outs) : k \in 1..(i - 1)}
IsResample(st) == st.filter = ARESAMPLE
IsAudioConcat(st) ==
  st.filter = CONCAT /\ (st.a > 0 \/ PadsOf(st.ins) \cap {"[a0]", "[a1]", "[a_intro]", "[a_main]", "[0:a]", "[1:a]"} # {})
StagesWhere(fl, P(_)) == {i \in DOMAIN fl : P(fl[i])}

\* C1: in the fused and the separate revision, for each of the four audio
\* combinations, the planned transcode maps the video label [v], and maps an
\* audio label (a second -map directive) iff at least one input has audio.
C1_LabelsSet ==
  \A r \in Reqs :
    (Planned(r) /\ rev \in {"fused", "separate"}) =>
      /\ "[v]" \in MapLabels(outputOptions[r])
      /\ (AudioMapLabels(outputOptions[r]) # {}) <=> (IntroHasA(r) \/ MainHasA(r))

C1_Witness ==
  \E r \in Reqs :
    /\ Planned(r) /\ rev = "fused"
    /\ ~IntroHasA(r) /\ MainHasA(r)
    /\ Cardinality(MapLabels(outputOptions[r])) = 2

\* C2: in every filter list handed to ffmpeg, each pad a stage consumes is a
\* raw input pad or an output pad of a stage earlier in the list.
C2_NoForwardReference ==
  \A r \in Reqs :
    Planned(r) =>
      \A i \in DOMAIN allFilters[r] :
        PadsOf(allFilters[r][i].ins) \subseteq RawPads \cup ProducedBefore(allFilters[r], i)

C2_Witness ==
  \E r \in Reqs :
    /\ Planned(r) /\ rev = "separate"
    /\ IntroHasA(r) /\ MainHasA(r)
    /\ \E i \in DOMAIN allFilters[r] : "[a_main]" \in PadsOf(allFilters[r][i].ins)

\* C3: every request that stored both uploads and has ended (success, probe
\* failure, transcode failure, delivery failure) has removed its two source
\* files, and its output file if it was written, exactly once each.
RemovedOnce(r, path) ==
  Cardinality({i \in DOMAIN unlinks[r] : unlinks[r][i] = <<path, TRUE>>}) = 1
C3_CleanupOnEveryOutcome ==
  \A r \in Reqs :
    (rev \in {"fused", "separate"} /\ pc[r] \in {"Completed", "Failed"}
       /\ files[r].intro /\ files[r].main) =>
      /\ RemovedOnce(r, IntroPath(r)) /\ IntroPath(r) \notin fs
      /\ RemovedOnce(r, MainPath(r)) /\ MainPath(r) \notin fs
      /\ outputPath[r] \notin fs

\* C4: a request with a missing upload field is answered 400 and starts no
\* probe and no transcode.
C4_MissingFilesRejected ==
  \A r \in Reqs :
    (rev \in {"fused", "demuxer"} /\ MissingFiles(r) /\ pc[r] \notin {"Idle", "Received"}) =>
      /\ response[r] = <<JsonResponse(400, MissingMsg)>>
      /\ nProbes[r] = 0 /\ nTranscodes[r] = 0

\* C5: the transcode (and the planning before it) starts only once both
\* probes have succeeded; once a probe has failed the request is Failed with
\* one 500 response and no transcode, whatever the other probe returns.
C5_ProbeBarrier ==
  \A r \in Reqs :
    rev \in GraphRevs =>
      /\ (nTranscodes[r] > 0 \/ errKind[r] = "unsupported" \/ allFilters[r] # <<>>) =>
           (probe[r].intro.st = "resolved" /\ probe[r].main.st = "resolved")
      /\ (probe[r].intro.st = "rejected" \/ probe[r].main.st = "rejected") =>
           /\ pc[r] = "Failed"
           /\ response[r] = <<JsonResponse(500, ProbeErrMsg)>>
           /\ nTranscodes[r] = 0

C5_Witness ==
  \E r \in Reqs :
    /\ rev = "fused"
    /\ probe[r].intro.st = "rejected"
    /\ probe[r].main.st = "resolved" /\ MainHasA(r)
    /\ pc[r] = "Failed"

\* C6: a request that failed on its input, a probe or the transcode has got
\* exactly one response, a JSON body {error: message}: 400 for a missing
\* upload or an unsupported input, 500 for a probe or transcode failure; after
\* a transcode failure the message is ffmpeg's and no file was sent.
C6_ErrorResponses ==
  \A r \in Reqs :
    (rev \in GraphRevs /\ pc[r] = "Failed"
       /\ errKind[r] \in {"missing", "unsupported", "probe", "transcode"}) =>
      /\ Len(response[r]) = 1
      /\ response[r][1].kind = "json"
      /\ response[r][1].error # ""
      /\ (response[r][1].status = 400) <=> (errKind[r] \in {"missing", "unsupported"})
      /\ (response[r][1].status = 500) <=> (errKind[r] \in {"probe", "transcode"})
      /\ errKind[r] = "transcode" => response[r][1].error = engineMsg[r]

C6_Witness ==
  \E r \in Reqs :
    /\ rev = "fused" /\ pc[r] = "Failed" /\ errKind[r] = "transcode"
    /\ engineMsg[r] = "Conversion failed!"
    /\ outputPath[r] \in fs

\* C7: two requests in flight at the same time have distinct output paths.
InFlight(r) == pc[r] \in {"Probing", "Transcoding", "Delivering", "Cleanup"}
C7_DistinctOutputNames ==
  \A r1 \in Reqs, r2 \in Reqs :
    (rev = "fused" /\ r1 # r2 /\ InFlight(r1) /\ InFlight(r2)) =>
      outputPath[r1] # outputPath[r2]

\* C8: once both probes have succeeded the request goes on to the transcode
\* with a plan, for every combination of audio flags.
C8_PlanningTotal ==
  \A r \in Reqs :
    (rev \in {"separate", "reject"} /\ pc[r] # "Probing"
       /\ probe[r].intro.st = "resolved" /\ probe[r].main.st = "resolved") =>
      /\ nTranscodes[r] = 1
      /\ allFilters[r] # <<>>
      /\ errKind[r] # "unsupported"

\* C9: the plan holds 2 resample stages and 1 audio concat for (yes,yes), 1
\* resample stage and no audio concat for (yes,no) and (no,yes), and no audio
\* stage for (no,no).
C9_AudioStageCount ==
  \A r \in Reqs :
    (Planned(r) /\ rev \in {"fused", "separate"}) =>
      LET nNorm == Cardinality(StagesWhere(allFilters[r], IsResample))
          nConcat == Cardinality(StagesWhere(allFilters[r], IsAudioConcat))
      IN IF IntroHasA(r) /\ MainHasA(r) THEN nNorm = 2 /\ nConcat = 1
         ELSE IF IntroHasA(r) \/ MainHasA(r) THEN nNorm = 1 /\ nConcat = 0
         ELSE nNorm = 0 /\ nConcat = 0

\* C10: with audio in exactly one input, the mapped audio label is the output
\* pad of the one resample stage on that input's audio, and no concat stage
\* consumes or produces audio.
C10_SingleSourceAudio ==
  \A r \in Reqs :
    (Planned(r) /\ rev \in {"fused", "separate"} /\ (IntroHasA(r) # MainHasA(r))) =>
      LET raw == IF IntroHasA(r) THEN "[0:a]" ELSE "[1:a]"
          res == {i \in DOMAIN allFilters[r] :
                    IsResample(allFilters[r][i]) /\ allFilters[r][i].ins = <<raw>>}
      IN /\ Cardinality(StagesWhere(allFilters[r], IsResample)) = 1
         /\ Cardinality(res) = 1
         /\ AudioMapLabels(outputOptions[r]) = UNION {PadsOf(allFilters[r][i].outs) : i \in res}
         /\ StagesWhere(allFilters[r], IsAudioConcat) = {}


\* The paths of the removals the cleanup of r has attempted, in order
Attempted(r) == [i \in DOMAIN unlinks[r] |-> unlinks[r][i][1]]
AllRemoved(r) == \A i \in DOMAIN unlinks[r] : unlinks[r][i][2]

\* C11: after a delivery error the request has still sent only the file
\* response (no error response follows), it ends in a terminal state, and by
\* then the cleanup has run: it has attempted the removals in order, all three
\* unless one of them failed.
C11_DeliveryFailure ==
  \A r \in Reqs :
    (rev \in GraphRevs /\ errKind[r] = "delivery") =>
      /\ pc[r] \in {"Cleanup", "Failed"}
      /\ response[r] = <<FileResponse>>
      /\ pc[r] = "Failed" =>
           /\ Len(unlinks[r]) >= 1
           /\ Attempted(r) = SubSeq(CleanupPaths(rev, r), 1, Len(unlinks[r]))
           /\ AllRemoved(r) => Len(unlinks[r]) = 3

C11_Witness ==
  \E r \in Reqs :
    /\ rev = "fused" /\ errKind[r] = "delivery" /\ pc[r] = "Failed"
    /\ Len(unlinks[r]) = 3 /\ AllRemoved(r)
    /\ {IntroPath(r), MainPath(r), outputPath[r]} \cap fs = {}


\* C12: a request starts ffmpeg at most once (and each probe at most once);
\* after ffmpeg has failed the request is Failed, has answered with the one
\* 500 response carrying ffmpeg's message, and has started nothing again.
C12_NoRetry ==
  \A r \in Reqs :
    /\ nTranscodes[r] <= 1
    /\ nProbes[r] <= 2
    /\ engineMsg[r] # "" =>
         /\ pc[r] = "Failed" /\ errKind[r] = "transcode"
         /\ nTranscodes[r] = 1
         /\ response[r] = <<CatchResponse(rev, engineMsg[r])>>

C12_Witness ==
  \E r \in Reqs :
    /\ rev = "separate" /\ errKind[r] = "transcode" /\ pc[r] = "Failed"
    /\ nTranscodes[r] = 1 /\ nProbes[r] = 2
    /\ engineMsg[r] = "ffmpeg exited with code 1"


Producers(fl, label) == {i \in DOMAIN fl : label \in PadsOf(fl[i].outs)}

\* C13: every label named in a -map directive is the output pad of exactly
\* one stage of the filter list of the same transcode.
C13_MappedLabelsProduced ==
  \A r \in Reqs :
    (Planned(r) /\ rev \in {"fused", "separate"}) =>
      \A l \in MapLabels(outputOptions[r]) :
        Cardinality(Producers(allFilters[r], l)) = 1

\* C14: in all four audio cases the first two stages produce [v0] and [v1]
\* from the raw video pads, and the one stage that produces [v] is the
\* two-input concat with a=0 that consumes exactly [v0] and [v1].
C14_VideoPathInvariant ==
  \A r \in Reqs :
    (Planned(r) /\ rev \in {"fused", "separate"}) =>
      /\ SubSeq(allFilters[r], 1, 2) = videoFilters
      /\ \E i \in DOMAIN allFilters[r] :
           /\ Producers(allFilters[r], "[v]") = {i}
           /\ allFilters[r][i] = VideoConcat


\* C15: while a request is delivering its file (from the end of its transcode
\* to its sendFile callback) its two source files and its output file are in
\* the temporary directory, and the request removes files only after that
\* callback.
C15_FilesKeptUntilDelivered ==
  \A r \in Reqs :
    rev = "fused" =>
      /\ pc[r] = "Delivering" =>
           {IntroPath(r), MainPath(r), outputPath[r]} \subseteq fs
      /\ unlinks[r] # <<>> => pc[r] \in {"Completed", "Failed"}


RemovalFailed(r) == \E i \in DOMAIN unlinks[r] : ~unlinks[r][i][2]

\* C16: when a removal of the cleanup has failed, the request still ends in
\* its terminal state (Failed only if the delivery had failed), and its one
\* response is still the file response: no status or body is changed, no
\* response is added, nothing escapes the handler.
C16_CleanupFailureOnlyLogged ==
  \A r \in Reqs :
    (rev \in GraphRevs /\ RemovalFailed(r)) =>
      /\ pc[r] \in {"Completed", "Failed"}
      /\ (pc[r] = "Failed") <=> (errKind[r] = "delivery")
      /\ response[r] = <<FileResponse>>

C16_Witness ==
  \E r \in Reqs :
    /\ rev = "fused" /\ pc[r] = "Completed"
    /\ Len(unlinks[r]) = 2 /\ unlinks[r][2] = <<MainPath(r), FALSE>>
    /\ response[r] = <<FileResponse>>


\* C17: when the cleanup has run, it has attempted the removal of every one
\* of its files, whether or not another removal failed.
C17_EveryRemovalAttempted ==
  \A r \in Reqs :
    (rev \in {"fused", "demuxer"} /\ pc[r] \in {"Completed", "Failed"}
       /\ unlinks[r] # <<>>) =>
      Attempted(r) = CleanupPaths(rev, r)

\* C18: a request has sent at most one response: none before it fails or
\* starts delivering, exactly one (the 400, the 500 or the file) from then on.
C18_OneResponse ==
  \A r \in Reqs :
    /\ Len(response[r]) <= 1
    /\ pc[r] \in {"Idle", "Received", "Probing", "Transcoding"} => response[r] = <<>>
    /\ pc[r] \in {"Delivering", "Cleanup", "Completed"} => response[r] = <<FileResponse>>
    /\ pc[r] = "Failed" =>
         /\ Len(response[r]) = 1
         /\ (response[r][1].kind = "file") <=> (errKind[r] = "delivery")

C18_Witness ==
  \E r \in Reqs :
    /\ rev = "fused" /\ pc[r] = "Failed" /\ errKind[r] = "delivery"
    /\ response[r] = <<FileResponse>>
    /\ RemovalFailed(r)


\* C19: every pad a stage of the filter list produces is consumed by a later
\* stage or named in a -map directive.
C19_NoUnconnectedPad ==
  \A r \in Reqs :
    (Planned(r) /\ rev \in {"fused", "separate"}) =>
      \A i \in DOMAIN allFilters[r] :
        \A pad \in PadsOf(allFilters[r][i].outs) :
          \/ pad \in MapLabels(outputOptions[r])
          \/ \E k \in (i + 1)..Len(allFilters[r]) : pad \in PadsOf(allFilters[r][k].ins)


\* A request that is not in flight: not yet received, or ended with a
\* response issued
Quiet(r) ==
  \/ pc[r] = "Idle"
  \/ pc[r] \in {"Completed", "Failed"} /\ Len(response[r]) >= 1

\* C20: provided a due callback eventually runs, no request stays forever
\* received, probing, transcoding, delivering or waiting for its cleanup: from
\* some moment on every request that was received is Completed or Failed with
\* a response issued.
C20_Terminates == <>[](\A r \in Reqs : Quiet(r))

C20_Witness ==
  \E r \in Reqs :
    /\ rev = "fused" /\ pc[r] = "Completed" /\ errKind[r] = "none"
    /\ response[r] = <<FileResponse>>
    /\ Len(unlinks[r]) = 3 /\ AllRemoved(r)

====
